---- MODULE Spec2Model ----
(***************************************************************************)
(* Model of robotidy's transformer loading (robotidy/transformers) and of  *)
(* its command line entry point (robotidy/cli.py).                         *)
(*                                                                         *)
(* Text is modelled structurally:                                          *)
(*   - a parameter token ("line_length=80") is a sequence of characters,   *)
(*     so that str.split('=', maxsplit=1) and the f-string that joins the  *)
(*     pieces again are computed, not assumed;                             *)
(*   - a transformer name or reference ("robotidy.transformers.X") is the  *)
(*     sequence of its dot separated components;                           *)
(*   - an error message is the sequence of the pieces it is formatted      *)
(*     from, and "s in str(err)" is containment of a piece.                *)
(***************************************************************************)
EXTENDS Integers, Sequences, FiniteSets, TLC

VARIABLES
    pc,         \* position of the run: "idle", "walk", "rooted", "parsed", "done"
    op,         \* the operation that ran last
    inp,        \* its arguments
    out,        \* its outcome (return value or raised error)
    enabled_attr, \* ENABLED class attribute of every catalog transformer
    fs,         \* what the directories looked at so far hold
    ctx,        \* click context: default_map
    directory   \* find_project_root: directory the upward walk looks at

vars == <<pc, op, inp, out, enabled_attr, fs, ctx, directory>>

(***************************************************************************)
(* Bounds of the model.                                                    *)
(***************************************************************************)
MaxSel == 2        \* entries of an explicit selection
MaxTokens == 2     \* parameter tokens of one load, inline and configured together
MaxDepth == 1      \* depth of the directory tree below the file system root
MaxSrcs == 2       \* source paths on the command line

(***************************************************************************)
(* transformers/__init__.py: the catalog.                                  *)
(***************************************************************************)
TRANSFORMERS ==
    << "NormalizeSeparators", "DiscardEmptySections", "MergeAndOrderSections",
       "RemoveEmptySettings", "NormalizeAssignments", "OrderSettings",
       "OrderSettingsSection", "AlignSettingsSection", "AlignVariablesSection",
       "NormalizeNewLines", "NormalizeSectionHeaderName", "NormalizeSettingName",
       "ReplaceRunKeywordIf", "SplitTooLongLine", "SmartSortKeywords" >>

CatalogNames == { TRANSFORMERS[i] : i \in 1..Len(TRANSFORMERS) }

\* name in TRANSFORMERS, for a name given as its dot separated components
InCatalog(name) == Len(name) = 1 /\ name[1] \in CatalogNames

(***************************************************************************)
(* Python text helpers.                                                    *)
(***************************************************************************)
RECURSIVE FirstIndex(_, _, _)
\* str.find: the first index >= i at which character c stands, 0 when none
FirstIndex(s, c, i) ==
    IF i > Len(s) THEN 0
    ELSE IF s[i] = c THEN i
    ELSE FirstIndex(s, c, i + 1)

\* arg.split('=', maxsplit=1): one piece without "=", else the text before
\* the first "=" and everything after it
SplitFirstEq(arg) ==
    LET i == FirstIndex(arg, "=", 1)
    IN  IF i = 0 THEN << arg >>
        ELSE << SubSeq(arg, 1, i - 1), SubSeq(arg, i + 1, Len(arg)) >>

\* f'{key}={value}'
JoinKeyValue(key, value) == key \o << "=" >> \o value

\* name.split('.')[-1]
ShortName(name) == name[Len(name)]

Range(seq) == { seq[i] : i \in 1..Len(seq) }

\* s in str(err), at the granularity of message pieces
Contains(msg, s) == \E i \in 1..Len(msg) : msg[i] = s

(***************************************************************************)
(* Values: None, raised errors, outcomes of a call.                        *)
(***************************************************************************)
None == [kind |-> "None"]

IsNone(x) == x.kind = "None"

Error(type, msg) == [type |-> type, msg |-> msg]

\* a call that returned value
Return(value) == [status |-> "returned", value |-> value]

\* a call that raised error
Raise(error) == [status |-> "raised", error |-> error]

(***************************************************************************)
(* Collaborators that are not part of transformers/__init__.py.            *)
(***************************************************************************)
\* External references that can be imported besides the catalog modules.
ExternalTransformers == { << "ext", "MyTransformer" >> }

\* robotidy/transformers/<Name>.py exists for every catalog name
Resolvable(import_name) ==
    \/ /\ Len(import_name) = 3
       /\ import_name[1] = "robotidy" /\ import_name[2] = "transformers"
       /\ import_name[3] \in CatalogNames
    \/ import_name \in ExternalTransformers

\* Transformer constructors take keyword parameters only: a token that is
\* not key=value is rejected by the class.
Accepts(args) == \A i \in 1..Len(args) : Len(SplitFirstEq(args[i])) = 2

\* ENABLED attribute of an imported class: "True", "False" or "absent"
ClassEnabled(import_name) ==
    IF Len(import_name) = 3 /\ import_name[3] \in CatalogNames
    THEN enabled_attr[import_name[3]]
    ELSE "absent"

MARKER == "Creating instance failed"

\* robot.utils.importer.Importer().import_class_or_module(name,
\* instantiate_with_args=args): the instance, or DataError whose message
\* quotes the name and the reason.
import_class_or_module(name, args) ==
    IF ~Resolvable(name)
    THEN Raise(Error("DataError",
             << "Importing '" >> \o name \o << "' failed: ", "ModuleNotFoundError" >>))
    ELSE IF ~Accepts(args)
    THEN Raise(Error("DataError",
             << "Importing '" >> \o name \o << "' failed: ", MARKER, "TypeError" >>))
    ELSE Return([kind |-> "instance", cls |-> ShortName(name), args |-> args,
                 enabled |-> ClassEnabled(name)])

\* RecommendationFinder().find_similar(name, candidates): the suggestion
\* clause, empty when no candidate is close.
Misspelt == [n \in {"OrderSettngs", "SmartSortKeyword"} |->
                IF n = "OrderSettngs" THEN "OrderSettings" ELSE "SmartSortKeywords"]

find_similar(name, candidates) ==
    IF name \in DOMAIN Misspelt /\ Misspelt[name] \in candidates
    THEN << " Did you mean: ", Misspelt[name] >>
    ELSE << >>

(***************************************************************************)
(* transformers/__init__.py: import_transformer.                           *)
(***************************************************************************)
\* variant: the failure is reported and None returned
reraise_returns_none(name, err) == Return(None)

\* the except branch: which error leaves import_transformer
reraise(name, err) ==
    IF Contains(err.msg, MARKER)
    THEN Raise(err)
    ELSE LET short_name == ShortName(name)
             similar == find_similar(short_name, CatalogNames)
         IN  Raise(Error("ImportTransformerError",
                    << "Importing transformer '", short_name,
                       "' failed. Verify if correct name or configuration was provided." >>
                    \o similar))

import_transformer(name, args) ==
    LET r == import_class_or_module(name, args)
    IN  IF r.status = "returned" THEN r
        ELSE IF r.error.type = "DataError" THEN reraise(name, r.error)
        ELSE r

(***************************************************************************)
(* transformers/__init__.py: load_transformers.                            *)
(***************************************************************************)
\* config.get(name, ())
ConfigGet(config, name) == IF name \in DOMAIN config THEN config[name] ELSE << >>

\* temp_args[param] = value on an insertion ordered dict, kept as a
\* sequence of <<param, value>>
DictSet(d, param, value) ==
    IF \E i \in 1..Len(d) : d[i][1] = param
    THEN [i \in 1..Len(d) |-> IF d[i][1] = param THEN << param, value >> ELSE d[i]]
    ELSE Append(d, << param, value >>)

RECURSIVE temp_args(_, _, _)
\* lines 61-64: the dict after the loop over chain, or the ValueError of
\* unpacking a single piece into param, value
temp_args(tokens, i, d) ==
    IF i > Len(tokens) THEN Return(d)
    ELSE LET pieces == SplitFirstEq(tokens[i])
         IN  IF Len(pieces) # 2
             THEN Raise(Error("ValueError",
                      << "not enough values to unpack (expected 2, got 1)" >>))
             ELSE temp_args(tokens, i + 1, DictSet(d, pieces[1], pieces[2]))

\* line 62: chain(args, config.get(name, ()))
chain(args, configured) == args \o configured

\* line 65: [f'{key}={value}' for key, value in temp_args.items()]
items_to_args(d) == [i \in 1..Len(d) |-> JoinKeyValue(d[i][1], d[i][2])]

\* line 66
import_name_of(name) ==
    IF InCatalog(name) THEN << "robotidy", "transformers" >> \o name ELSE name

\* variant: insert(0, imported_class)
prepend(loaded_transformers, imported_class) == << imported_class >> \o loaded_transformers

\* loaded_transformers.append(imported_class)
append(loaded_transformers, imported_class) == Append(loaded_transformers, imported_class)

\* variant: allow_disabled is not looked at
keep_enabled_only(allow_disabled, imported_class) ==
    imported_class.enabled \in {"True", "absent"}

\* line 76: allow_disabled or getattr(imported_class, 'ENABLED', True)
keep(allow_disabled, imported_class) ==
    allow_disabled \/ imported_class.enabled \in {"True", "absent"}

\* What a call of load_transformers leaves behind: its outcome and, in
\* calls, every (name, args) it handed to import_transformer, in order.
Loaded(outcome, calls) == [status |-> outcome.status,
                           value  |-> IF outcome.status = "returned" THEN outcome.value ELSE << >>,
                           error  |-> IF outcome.status = "raised" THEN outcome.error
                                      ELSE Error("", << >>),
                           calls  |-> calls]

RECURSIVE load_explicit(_, _, _, _, _)
\* lines 58-70, from entry i on
load_explicit(allowed_transformers, config, i, loaded_transformers, calls) ==
    IF i > Len(allowed_transformers) THEN Loaded(Return(loaded_transformers), calls)
    ELSE
      LET name == allowed_transformers[i][1]
          d    == temp_args(chain(allowed_transformers[i][2], ConfigGet(config, name)), 1, << >>)
      IN  IF d.status = "raised" THEN Loaded(d, calls)
          ELSE
            LET args     == items_to_args(d.value)
                call     == [name |-> import_name_of(name), args |-> args]
                imported == import_transformer(call.name, call.args)
                calls2   == Append(calls, call)
            IN  IF imported.status = "raised" THEN Loaded(imported, calls2)
                ELSE IF IsNone(imported.value) THEN Loaded(Return(<< >>), calls2)
                ELSE load_explicit(allowed_transformers, config, i + 1,
                                   append(loaded_transformers, imported.value), calls2)

RECURSIVE load_implicit(_, _, _, _, _)
\* lines 72-77, from catalog entry i on
load_implicit(config, allow_disabled, i, loaded_transformers, calls) ==
    IF i > Len(TRANSFORMERS) THEN Loaded(Return(loaded_transformers), calls)
    ELSE
      LET call     == [name |-> << "robotidy", "transformers", TRANSFORMERS[i] >>,
                       args |-> ConfigGet(config, << TRANSFORMERS[i] >>)]
          imported == import_transformer(call.name, call.args)
          calls2   == Append(calls, call)
      IN  IF imported.status = "raised" THEN Loaded(imported, calls2)
          ELSE IF IsNone(imported.value) THEN Loaded(Return(<< >>), calls2)
          ELSE load_implicit(config, allow_disabled, i + 1,
                             IF keep(allow_disabled, imported.value)
                             THEN append(loaded_transformers, imported.value)
                             ELSE loaded_transformers,
                             calls2)

\* allowed_transformers is None or a (possibly empty) list: both are falsy
load_transformers(allowed_transformers, config, allow_disabled) ==
    IF Len(allowed_transformers) > 0
    THEN load_explicit(allowed_transformers, config, 1, << >>, << >>)
    ELSE load_implicit(config, allow_disabled, 1, << >>, << >>)

(***************************************************************************)
(* cli.py: TransformType.convert.  A directive "Name:tok:tok" is the       *)
(* sequence of its ":" separated pieces, the name first.                   *)
(***************************************************************************)
\* robotidy.utils.split_args_from_name_or_path(value): (name, args), or
\* ValueError for a token that is not param=value
split_args_from_name_or_path(value) ==
    IF \E i \in 2..Len(value) : Len(SplitFirstEq(value[i])) # 2
    THEN Raise(Error("ValueError", << "malformed token" >>))
    ELSE Return(<< Head(value), Tail(value) >>)

\* lines 73-81: name is still '' when the except branch formats the message
convert(value) ==
    LET name == << >>
        r    == split_args_from_name_or_path(value)
    IN  IF r.status = "raised"
        THEN Raise(Error("ValueError",
                 << "Invalid " >> \o name \o
                 << " transformer configuration. Parameters should be provided in format name=value, delimited by :" >>))
        ELSE r

(***************************************************************************)
(* cli.py: find_project_root.  A path is the sequence of its parts below   *)
(* the file system root; the root is the empty sequence.                   *)
(***************************************************************************)
DirNames == {"a", "b"}

FileName == "f.robot"

RECURSIVE PathsOfDepth(_)
PathsOfDepth(n) ==
    IF n = 0 THEN { << >> }
    ELSE { Append(p, d) : p \in PathsOfDepth(n - 1), d \in DirNames }

\* every directory of the tree, and one file in each of them
Dirs == UNION { PathsOfDepth(n) : n \in 0..MaxDepth }

Files == { Append(d, FileName) : d \in Dirs }

\* Path("/").resolve()
Root == << >>

\* path.is_dir()
is_dir(path) == path \in Dirs

\* path.parents
parents(path) == { SubSeq(path, 1, k) : k \in 0..(Len(path) - 1) }

\* path.parent
parent(path) == SubSeq(path, 1, Len(path) - 1)

\* lines 98-100: the parents of src, src included when it is a directory
src_parents(path) == parents(path) \cup (IF is_dir(path) THEN {path} ELSE {})

\* order of strings, for the comparison of path.parts tuples
NameRank == [n \in DirNames \cup {FileName} |->
                IF n = "a" THEN 1 ELSE IF n = "b" THEN 2 ELSE 3]

RECURSIVE PartsLess(_, _, _)
\* p.parts < q.parts, tuples compared from position i on
PartsLess(p, q, i) ==
    IF i > Len(p) THEN i <= Len(q)
    ELSE IF i > Len(q) THEN FALSE
    ELSE IF p[i] = q[i] THEN PartsLess(p, q, i + 1)
    ELSE NameRank[p[i]] < NameRank[q[i]]

\* variant: min instead of max
common_base_min(srcs) ==
    LET common == { d \in UNION { src_parents(s) : s \in srcs } :
                        \A s \in srcs : d \in src_parents(s) }
    IN  CHOOSE p \in common : \A q \in common : ~PartsLess(q, p, 1)

\* lines 102-105: max(set.intersection(...), key=lambda path: path.parts)
common_base(srcs) ==
    LET common == { d \in UNION { src_parents(s) : s \in srcs } :
                        \A s \in srcs : d \in src_parents(s) }
    IN  CHOOSE p \in common : \A q \in common : ~PartsLess(p, q, 1)

Markers == {".git", "robotidy.toml", "pyproject.toml"}

\* lines 108-115: (directory / ".git").exists() or one of the toml files
\* is_file(), for the entries found in directory
is_project_root(found) == found # {}

(***************************************************************************)
(* cli.py: configuration files.  A key is the sequence of its pieces       *)
(* ("--", "-" or a word); a value is a list of directives or a scalar.     *)
(***************************************************************************)
\* k.replace('--', '').replace('-', '_')
RECURSIVE normalize_key(_)
normalize_key(k) ==
    IF k = << >> THEN << >>
    ELSE IF Head(k) = "--" THEN normalize_key(Tail(k))
    ELSE IF Head(k) = "-" THEN << "_" >> \o normalize_key(Tail(k))
    ELSE << Head(k) >> \o normalize_key(Tail(k))

\* {normalize_key(k): v for k, v in config.items()}, a dict kept as a
\* sequence of <<key, value>>; a later item with an equal key replaces
RECURSIVE normalize_items(_, _, _)
normalize_items(items, i, d) ==
    IF i > Len(items) THEN d
    ELSE normalize_items(items, i + 1, DictSet(d, normalize_key(items[i][1]), items[i][2]))

\* lines 149-151
read_robotidy_config(content) == normalize_items(content.top, 1, << >>)

\* lines 142-146: config.get("tool", {}).get("robotidy", {})
read_pyproject_config(content) == normalize_items(content.tool_robotidy, 1, << >>)

\* lines 165-168: str(v) unless v is a list or a dict
sanitize(v) == IF v.kind \in {"list", "dict"} THEN v ELSE [kind |-> "str", val |-> v.val]

\* lines 160-174: ctx.default_map after read_config, None kept as << >>
updated_default_map(default_map, config) ==
    IF config = << >> THEN default_map
    ELSE LET clean == [i \in 1..Len(config) |-> << config[i][1], sanitize(config[i][2]) >>]
         IN  normalize_items(clean, 1, default_map)

\* lines 122-128: which file of project_root is read
config_source(found) ==
    IF "robotidy.toml" \in found THEN "robotidy.toml"
    ELSE IF "pyproject.toml" \in found THEN "pyproject.toml"
    ELSE "none"

\* lines 123-128: the configuration read from the file found
found_config(source, content) ==
    IF source = "robotidy.toml" THEN read_robotidy_config(content)
    ELSE IF source = "pyproject.toml" THEN read_pyproject_config(content)
    ELSE << >>

\* d.get(key), None when absent
DictGet(d, key) ==
    IF \E i \in 1..Len(d) : d[i][1] = key
    THEN (CHOOSE x \in { d[i] : i \in 1..Len(d) } : x[1] = key)[2]
    ELSE None

(***************************************************************************)
(* cli.py: print_description, print_transformers_list.                     *)
(***************************************************************************)
\* {transformer.__class__.__name__: transformer for transformer in transformers}
class_names(transformers) == { transformers[i].cls : i \in 1..Len(transformers) }

\* variant: the unknown name falls through to return 0
print_description_returns_0(name) ==
    LET transformers == load_transformers(<< >>, << >>, TRUE).value
        transformer_by_names == class_names(transformers)
    IN  IF name = "all"
        THEN [code |-> 0,
              echo |-> [i \in 1..Len(transformers) |-> << "Transformer ", transformers[i].cls, ":" >>]]
        ELSE IF name \in transformer_by_names
        THEN [code |-> 0, echo |-> << << "Transformer ", name, ":" >> >>]
        ELSE [code |-> 0,
              echo |-> << << "Transformer with the name '", name, "' does not exist." >>
                          \o find_similar(name, transformer_by_names) >>]

\* lines 177-192: the return code and what is echoed
print_description(name) ==
    LET transformers == load_transformers(<< >>, << >>, TRUE).value
        transformer_by_names == class_names(transformers)
    IN  IF name = "all"
        THEN [code |-> 0,
              echo |-> [i \in 1..Len(transformers) |-> << "Transformer ", transformers[i].cls, ":" >>]]
        ELSE IF name \in transformer_by_names
        THEN [code |-> 0, echo |-> << << "Transformer ", name, ":" >> >>]
        ELSE [code |-> 1,
              echo |-> << << "Transformer with the name '", name, "' does not exist." >>
                          \o find_similar(name, transformer_by_names) >>]

\* lines 195-202: one line per transformer, tagged when ENABLED is false
print_transformers_list ==
    LET transformers == load_transformers(<< >>, << >>, TRUE).value
    IN  [i \in 1..Len(transformers) |->
            << transformers[i].cls >> \o
            (IF transformers[i].enabled \in {"True", "absent"} THEN << >> ELSE << " (disabled)" >>)]

(***************************************************************************)
(* cli.py: cli, with what click and robotidy.app do around it.             *)
(***************************************************************************)
\* click: the value of a multiple option is what the command line gives;
\* ctx.default_map is consulted only when the command line does not give it
option_value(given, default_map, key) ==
    IF ~IsNone(given) THEN given.val
    ELSE LET v == DictGet(default_map, key)
         IN  IF IsNone(v) THEN << >> ELSE v.val

\* click: type.convert applied to every directive of the option
convert_all(directives) == [i \in 1..Len(directives) |-> convert(directives[i])]

\* robotidy.app.Robotidy.convert_configure: transformer name -> the args of
\* all its configure directives, in the order given
RECURSIVE args_for(_, _, _)
args_for(configure, name, i) ==
    IF i > Len(configure) THEN << >>
    ELSE (IF configure[i][1] = name THEN configure[i][2] ELSE << >>)
         \o args_for(configure, name, i + 1)

convert_configure(configure) ==
    [name \in { configure[i][1] : i \in 1..Len(configure) } |-> args_for(configure, name, 1)]

\* robotidy.app.Robotidy(transformers=transform, transformers_config=configure, ...)
Robotidy(transform, configure) ==
    [kind |-> "Robotidy", transformers |-> transform, transformers_config |-> configure,
     loaded |-> load_transformers(transform, convert_configure(configure), FALSE)]

\* what a run of cli leaves behind
Exit(code, echo, called, tidy) ==
    [exit_code |-> code, echo |-> echo, called |-> called, robotidy |-> tidy]

\* lines 362-399; transform and configure are the converted option values,
\* status is what tidy.transform_files() returns
cli(transform, configure, src, list, desc, list_transformers, describe_transformer, status) ==
    IF list_transformers
    THEN Exit(0, << << "--list-transformers is deprecated in 1.3.0. Use --list instead" >> >>,
              "none", None)
    ELSE IF ~IsNone(describe_transformer) /\ describe_transformer.val # ""
    THEN Exit(0, << << "--describe-transformer is deprecated in 1.3.0. Use --desc NAME instead" >> >>,
              "none", None)
    ELSE IF list
    THEN Exit(0, print_transformers_list, "print_transformers_list", None)
    ELSE IF ~IsNone(desc)
    THEN LET d == print_description(desc.val)
         IN  Exit(d.code, d.echo, "print_description", None)
    ELSE IF src = {}
    THEN Exit(0, << << "No source path provided. Run robotidy --help to see how to use robotidy" >> >>,
              "none", None)
    ELSE LET tidy == Robotidy(transform, configure)
         IN  IF tidy.loaded.status = "raised"
             THEN Exit(1, << tidy.loaded.error.msg >>, "Robotidy", tidy)
             ELSE Exit(status, << >>, "Robotidy", tidy)

(***************************************************************************)
(* Inputs the operations are run on.                                       *)
(***************************************************************************)
\* ENABLED as the transformer classes may declare it
EnabledMaps ==
    { [n \in CatalogNames |-> IF n = "SmartSortKeywords" THEN "False" ELSE "absent"],
      [n \in CatalogNames |-> IF n \in {"NormalizeSeparators", "SmartSortKeywords"} THEN "False"
                              ELSE IF n = "OrderSettings" THEN "True" ELSE "absent"] }

\* parameter tokens: two values of one key, a value holding "=", no "="
Tokens == { << "k", "=", "1" >>, << "k", "=", "2" >>,
            << "j", "=", "a", "=", "b" >>, << "k", "1" >> }

\* names of a selection: enabled, disabled by default, unknown
SelNames == { << "NormalizeSeparators" >>, << "SmartSortKeywords" >>, << "Foo" >> }

\* names configure directives are given for
ConfigNames == { << "NormalizeSeparators" >>, << "SmartSortKeywords" >> }

\* where a token of a load is given: inline on entry i, or configured for a name
Slots(n) == ({"inline"} \X (1..n)) \cup ({"config"} \X ConfigNames)

\* slots in a fixed order, so that one assignment of tokens to slots is
\* drawn once
SlotRank(slot) ==
    IF slot[1] = "inline" THEN slot[2]
    ELSE IF slot[2] = << "NormalizeSeparators" >> THEN MaxSel + 1 ELSE MaxSel + 2

BySlot(place) == \A i \in 1..(Len(place) - 1) : SlotRank(place[i][1]) <= SlotRank(place[i + 1][1])

RECURSIVE TokensAt(_, _, _)
\* the tokens placed at slot, in the order given
TokensAt(place, slot, i) ==
    IF i > Len(place) THEN << >>
    ELSE (IF place[i][1] = slot THEN << place[i][2] >> ELSE << >>)
         \o TokensAt(place, slot, i + 1)

\* names imported one at a time
ImportNames == { << "robotidy", "transformers", "OrderSettings" >>,
                 << "robotidy", "transformers", "OrderSettngs" >>,
                 << "ext", "MyTransformer" >>, << "ext", "Missing" >>,
                 << "Foo" >>, << MARKER >> }

ArgLists == { << >> } \cup { << t >> : t \in Tokens }

\* the directive "Name:tok:tok"
Directive(name, args) == << name >> \o args

Directives == { Directive(n, a) : n \in SelNames, a \in ArgLists }

DescNames == { "all", "SmartSortKeywords", "OrderSettngs", "Foo" }

Given(x) == [kind |-> "given", val |-> x]

\* the transformer the configuration scenarios are about
T == << "SplitTooLongLine" >>

ListOf(directives) == [kind |-> "list", val |-> directives]

\* items of a configuration file
FileItems ==
    { << >>,
      << << << "configure" >>, ListOf(<< Directive(T, << << "k", "=", "1" >> >>) >>) >> >>,
      << << << "--", "configure" >>, ListOf(<< Directive(T, << << "k", "=", "1" >> >>) >>) >>,
         << << "space", "-", "count" >>, [kind |-> "int", val |-> "2"] >> >> }

FileContents == { [top |-> i, tool_robotidy |-> i] : i \in FileItems }

\* --transform and --configure as the command line may give them
CliTransform == { None, ListOf(<< Directive(T, << >>) >>) }

CliConfigure == { None, ListOf(<< Directive(T, << << "k", "=", "2" >> >>) >>),
                  ListOf(<< Directive(T, << << "j", "=", "a", "=", "b" >> >>) >>),
                  ListOf(<< Directive(T, << << "k", "1" >> >>) >>) }

Sources == Dirs \cup Files

SrcSets == { S \in SUBSET Sources : Cardinality(S) <= MaxSrcs }

\* src as cli receives it: no path, or some
CliSrc == { {}, { << FileName >> } }

NoFiles == [d \in {} |-> {}]

(***************************************************************************)
(* The state machine.                                                      *)
(***************************************************************************)
Init ==
    /\ pc = "idle"
    /\ op = "none"
    /\ inp = None
    /\ out = None
    /\ enabled_attr \in EnabledMaps
    /\ fs = NoFiles
    /\ ctx = [default_map |-> << >>]
    /\ directory = Root

\* load_transformers(allowed_transformers, config, allow_disabled)
LoadTransformers ==
    /\ pc = "idle"
    /\ \E n \in 0..MaxSel, t \in 0..MaxTokens, allow_disabled \in BOOLEAN :
         \E names \in [1..n -> SelNames], place \in [1..t -> Slots(n) \X Tokens] :
           LET allowed_transformers ==
                   [i \in 1..n |-> << names[i], TokensAt(place, << "inline", i >>, 1) >>]
               config ==
                   [c \in { c \in ConfigNames : TokensAt(place, << "config", c >>, 1) # << >> }
                       |-> TokensAt(place, << "config", c >>, 1)]
           IN  /\ BySlot(place)
               /\ inp' = [allowed_transformers |-> allowed_transformers, config |-> config,
                          allow_disabled |-> allow_disabled]
               /\ out' = load_transformers(allowed_transformers, config, allow_disabled)
    /\ op' = "load_transformers"
    /\ pc' = "done"
    /\ UNCHANGED <<enabled_attr, fs, ctx, directory>>

\* import_transformer(name, args)
ImportTransformer ==
    /\ pc = "idle"
    /\ \E name \in ImportNames, args \in ArgLists :
         /\ inp' = [name |-> name, args |-> args]
         /\ out' = import_transformer(name, args)
    /\ op' = "import_transformer"
    /\ pc' = "done"
    /\ UNCHANGED <<enabled_attr, fs, ctx, directory>>

\* TransformType().convert(value, param, ctx)
Convert ==
    /\ pc = "idle"
    /\ \E value \in Directives :
         /\ inp' = [value |-> value]
         /\ out' = convert(value)
    /\ op' = "convert"
    /\ pc' = "done"
    /\ UNCHANGED <<enabled_attr, fs, ctx, directory>>

\* print_description(name)
PrintDescription ==
    /\ pc = "idle"
    /\ \E name \in DescNames \cup CatalogNames \cup {""} :
         /\ inp' = [name |-> name]
         /\ out' = print_description(name)
    /\ op' = "print_description"
    /\ pc' = "done"
    /\ UNCHANGED <<enabled_attr, fs, ctx, directory>>

\* print_transformers_list()
PrintTransformersList ==
    /\ pc = "idle"
    /\ inp' = None
    /\ out' = [echo |-> print_transformers_list]
    /\ op' = "print_transformers_list"
    /\ pc' = "done"
    /\ UNCHANGED <<enabled_attr, fs, ctx, directory>>

\* find_project_root(srcs): lines 91-105, up to the loop
FindProjectRoot ==
    /\ pc = "idle"
    /\ \E srcs \in SrcSets :
         /\ inp' = [srcs |-> srcs]
         /\ IF srcs = {}
            THEN /\ directory' = Root
                 /\ out' = [root |-> Root]
                 /\ pc' = "rooted"
            ELSE /\ directory' = common_base(srcs)
                 /\ out' = None
                 /\ pc' = "walk"
    /\ op' = "find_project_root"
    /\ UNCHANGED <<enabled_attr, fs, ctx>>

\* find_project_root, one turn of the loop of lines 107-117; found is what
\* the file system holds in directory
FindProjectRootStep ==
    /\ pc = "walk"
    /\ \E found \in SUBSET Markers :
         /\ fs' = [d \in DOMAIN fs \cup {directory} |-> IF d = directory THEN found ELSE fs[d]]
         /\ IF is_project_root(found) \/ directory = Root
            THEN /\ out' = [root |-> directory]
                 /\ pc' = "rooted"
                 /\ UNCHANGED directory
            ELSE /\ directory' = parent(directory)
                 /\ UNCHANGED <<out, pc>>
    /\ UNCHANGED <<op, inp, enabled_attr, ctx>>

\* find_and_read_config(src_paths) once find_project_root has returned:
\* lines 122-128
FindAndReadConfig ==
    /\ pc = "rooted"
    /\ \E found \in SUBSET Markers, content \in FileContents :
         /\ directory \in DOMAIN fs => found = fs[directory]
         /\ LET source == config_source(found)
            IN  /\ source = "none" => content = [top |-> << >>, tool_robotidy |-> << >>]
                /\ fs' = [d \in DOMAIN fs \cup {directory} |-> IF d = directory THEN found ELSE fs[d]]
                /\ out' = [root |-> directory, source |-> source, content |-> content,
                           config |-> found_config(source, content)]
    /\ op' = "find_and_read_config"
    /\ pc' = "done"
    /\ UNCHANGED <<inp, enabled_attr, ctx, directory>>

\* read_config(ctx, param, value), the eager callback of --config
ReadConfig ==
    /\ pc = "idle"
    /\ \E value \in {None, Given("config.toml")}, content \in FileContents,
          source \in {"robotidy.toml", "pyproject.toml", "none"} :
         LET config == IF ~IsNone(value) THEN read_robotidy_config(content)
                       ELSE found_config(source, content)
         IN  /\ ~IsNone(value) => source = "none"
             /\ (IsNone(value) /\ source = "none") => content = [top |-> << >>, tool_robotidy |-> << >>]
             /\ inp' = [value |-> value, source |-> source, content |-> content]
             /\ out' = [config |-> config]
             /\ ctx' = [ctx EXCEPT !.default_map = updated_default_map(ctx.default_map, config)]
    /\ op' = "read_config"
    /\ pc' = "parsed"
    /\ UNCHANGED <<enabled_attr, fs, directory>>

\* cli(...), entered by click once the eager callbacks have run
Cli ==
    /\ pc = "parsed"
    /\ \E transform \in CliTransform, configure \in CliConfigure,
          list \in BOOLEAN, list_transformers \in BOOLEAN,
          desc \in {None} \cup { Given(n) : n \in DescNames },
          describe_transformer \in {None, Given("OrderSettings")},
          src \in CliSrc, status \in {0, 1} :
         \E t \in { convert_all(option_value(transform, ctx.default_map, << "transform" >>)) },
            c \in { convert_all(option_value(configure, ctx.default_map, << "configure" >>)) } :
           \E bad \in { { r \in Range(t) \cup Range(c) : r.status = "raised" } } :
             \E run \in { IF bad # {}
                          THEN Exit(1, << (CHOOSE r \in bad : TRUE).error.msg >>, "convert", None)
                          ELSE cli([i \in 1..Len(t) |-> t[i].value], [i \in 1..Len(c) |-> c[i].value],
                                   src, list, desc, list_transformers, describe_transformer, status) } :
               \E ran \in { run.called = "Robotidy" /\ run.robotidy.loaded.status = "returned" } :
                 /\ ~ran => status = 0
                 /\ inp' = [transform |-> transform, configure |-> configure, list |-> list,
                            desc |-> desc, list_transformers |-> list_transformers,
                            describe_transformer |-> describe_transformer,
                            status |-> IF ran THEN Given(status) ELSE None,
                            src |-> src]
                 /\ out' = run
    /\ op' = "cli"
    /\ pc' = "done"
    /\ UNCHANGED <<enabled_attr, fs, ctx, directory>>

Next ==
    \/ LoadTransformers
    \/ ImportTransformer
    \/ Convert
    \/ PrintDescription
    \/ PrintTransformersList
    \/ FindProjectRoot
    \/ FindProjectRootStep
    \/ FindAndReadConfig
    \/ ReadConfig
    \/ Cli

Spec == Init /\ [][Next]_vars

\* find_project_root once called runs on: its loop of lines 107-115 goes
\* over a tuple built before the loop starts
FairSpec == Spec /\ WF_vars(FindProjectRootStep)

(***************************************************************************)
(* Vocabulary of the properties, stated on tokens and paths directly.      *)
(***************************************************************************)
HasEq(tok) == \E i \in 1..Len(tok) : tok[i] = "="

\* position of the first "=" of a token that has one
EqPos(tok) == CHOOSE i \in 1..Len(tok) : tok[i] = "=" /\ \A j \in 1..(i - 1) : tok[j] # "="

KeyOf(tok) == SubSeq(tok, 1, EqPos(tok) - 1)

ValueOf(tok) == SubSeq(tok, EqPos(tok) + 1, Len(tok))

WellFormed(toks) == \A i \in 1..Len(toks) : HasEq(toks[i])

IsLoad == op = "load_transformers"

IsExplicit == IsLoad /\ Len(inp.allowed_transformers) > 0

IsImplicit == IsLoad /\ Len(inp.allowed_transformers) = 0

\* every token of the load, inline or configured, is key=value
AllWellFormed ==
    /\ \A i \in 1..Len(inp.allowed_transformers) : WellFormed(inp.allowed_transformers[i][2])
    /\ \A n \in DOMAIN inp.config : WellFormed(inp.config[n])

\* the names a returned list holds, in order
LoadedNames == [i \in 1..Len(out.value) |-> out.value[i].cls]

\* index of a catalog name in TRANSFORMERS
CatalogIndex(n) == CHOOSE i \in 1..Len(TRANSFORMERS) : TRANSFORMERS[i] = n

EnabledByDefault(n) == enabled_attr[n] \in {"True", "absent"}

(***************************************************************************)
(* C1: with an explicit selection, a key given inline (v1) and in a        *)
(* configure directive for the same name (v2) reaches construction with    *)
(* the inline value v1.                                                    *)
(***************************************************************************)
\* C1: the parameter list used to construct a selected transformer carries
\* the inline value of a key that a configure directive for it also sets
C1_InlineOverridesConfigure ==
    (IsExplicit /\ AllWellFormed) =>
        \A i \in 1..Len(out.calls) :
            LET inline     == inp.allowed_transformers[i][2]
                configured == ConfigGet(inp.config, inp.allowed_transformers[i][1])
            IN  \A a \in 1..Len(inline), b \in 1..Len(configured) :
                    ( /\ KeyOf(inline[a]) = KeyOf(configured[b])
                      /\ \A a2 \in (a + 1)..Len(inline) : KeyOf(inline[a2]) # KeyOf(inline[a]) )
                    => \E x \in 1..Len(out.calls[i].args) :
                           /\ KeyOf(out.calls[i].args[x]) = KeyOf(inline[a])
                           /\ ValueOf(out.calls[i].args[x]) = ValueOf(inline[a])

(***************************************************************************)
(* C2: a token without "=" ends in a failure whose message names the       *)
(* transformer that owns it, and never reaches construction.               *)
(***************************************************************************)
\* the transformer of the first selection entry owns a token without "=",
\* given inline or in a configure directive for its name
FirstOwner == inp.allowed_transformers[1][1]

FirstOwnerMalformed ==
    /\ IsExplicit
    /\ ~WellFormed(inp.allowed_transformers[1][2] \o ConfigGet(inp.config, FirstOwner))

\* C2: a token without "=" of the first selected transformer never reaches
\* construction and fails the load with a message naming that transformer
C2_MalformedTokenNamesOwner ==
    /\ IsExplicit => \A i \in 1..Len(out.calls) : WellFormed(out.calls[i].args)
    /\ FirstOwnerMalformed =>
           /\ out.status = "raised"
           /\ Contains(out.error.msg, ShortName(FirstOwner))

(***************************************************************************)
(* C3: import_transformer reports a rejected construction verbatim and an  *)
(* unresolvable name as ImportTransformerError, never one as the other.    *)
(***************************************************************************)
\* C3: a found name whose construction is rejected raises the original
\* error, an unresolvable name raises ImportTransformerError
C3_NeverConflated ==
    op = "import_transformer" =>
        /\ (Resolvable(inp.name) /\ Accepts(inp.args)) =>
               out.status = "returned"
        /\ (Resolvable(inp.name) /\ ~Accepts(inp.args)) =>
               /\ out.status = "raised"
               /\ out.error = import_class_or_module(inp.name, inp.args).error
               /\ out.error.type # "ImportTransformerError"
        /\ ~Resolvable(inp.name) =>
               /\ out.status = "raised"
               /\ out.error.type = "ImportTransformerError"

(***************************************************************************)
(* C4: a selection with an entry that fails to resolve.                    *)
(***************************************************************************)
\* entry i is the first entry whose name cannot be resolved
FirstUnresolved(i) ==
    /\ i \in 1..Len(inp.allowed_transformers)
    /\ ~Resolvable(import_name_of(inp.allowed_transformers[i][1]))
    /\ \A j \in 1..(i - 1) : Resolvable(import_name_of(inp.allowed_transformers[j][1]))

C5_Membership ==
    (IsLoad /\ out.status = "returned") =>
        /\ (IsImplicit /\ ~inp.allow_disabled) =>
               /\ Range(LoadedNames) = { n \in CatalogNames : EnabledByDefault(n) }
               /\ Len(out.value) = Cardinality(Range(LoadedNames))
        /\ (IsImplicit /\ inp.allow_disabled) =>
               /\ Range(LoadedNames) = CatalogNames
               /\ Len(out.value) = Len(TRANSFORMERS)
        /\ IsExplicit =>
               \A i \in 1..Len(inp.allowed_transformers) :
                   InCatalog(inp.allowed_transformers[i][1]) =>
                       inp.allowed_transformers[i][1][1] \in Range(LoadedNames)

C5_Witness ==
    /\ IsImplicit /\ ~inp.allow_disabled /\ out.status = "returned"
    /\ \E n \in CatalogNames : ~EnabledByDefault(n) /\ n \notin Range(LoadedNames)
    /\ Len(out.value) > 0

(***************************************************************************)
(* C6: the order of a returned list.                                       *)
(***************************************************************************)
\* C6: an explicit load returns one capability per selection entry, in the
\* order of the selection; an implicit load returns catalog entries in
\* catalog order
C6_Order ==
    (IsLoad /\ out.status = "returned") =>
        /\ IsExplicit =>
               /\ Len(out.value) = Len(inp.allowed_transformers)
               /\ \A i \in 1..Len(out.value) :
                      /\ out.value[i].cls = ShortName(inp.allowed_transformers[i][1])
                      /\ out.calls[i].name = import_name_of(inp.allowed_transformers[i][1])
                      /\ out.value[i].args = out.calls[i].args
        /\ IsImplicit =>
               /\ Range(LoadedNames) \subseteq CatalogNames
               /\ \A i, j \in 1..Len(out.value) :
                      i < j => CatalogIndex(out.value[i].cls) < CatalogIndex(out.value[j].cls)

C6_Witness ==
    /\ IsExplicit /\ out.status = "returned"
    /\ Len(out.value) = 2
    /\ CatalogIndex(out.value[1].cls) > CatalogIndex(out.value[2].cls)

(***************************************************************************)
(* C7: the parameter list handed to construction holds each key once,      *)
(* with the value of the last token applied for that key.                  *)
(***************************************************************************)
\* C7: no parameter list handed to construction holds a key twice
C7_KeysUnique ==
    (IsLoad /\ AllWellFormed) =>
        \A i \in 1..Len(out.calls) :
            \A a, b \in 1..Len(out.calls[i].args) :
                a # b => KeyOf(out.calls[i].args[a]) # KeyOf(out.calls[i].args[b])

(***************************************************************************)
(* C8: a key that only the configuration file sets for a transformer is    *)
(* still in the parameters of that transformer when the command line       *)
(* gives a configure directive; a key both set takes the command line's    *)
(* value.                                                                  *)
(***************************************************************************)
\* the configure directives of the configuration file, as read_config
\* left them in ctx.default_map
FileConfigure ==
    LET v == DictGet(ctx.default_map, << "configure" >>)
    IN  IF IsNone(v) THEN << >> ELSE v.val

\* the tokens transformers_config holds for name
ConfiguredFor(name) ==
    UNION { Range(e[2]) : e \in { e \in Range(out.robotidy.transformers_config) : e[1] = name } }

\* C8: every key a configure directive of the configuration file sets for
\* a transformer is a key of the parameters Robotidy gets for it
C8_ConfigFileMergedPerKey ==
    (op = "cli" /\ out.called = "Robotidy") =>
        \A d \in Range(FileConfigure) :
            \A tok \in Range(Tail(d)) :
                \E x \in ConfiguredFor(Head(d)) : KeyOf(x) = KeyOf(tok)

(***************************************************************************)
(* C9: print_description and the exit code of cli under --desc, --list.    *)
(***************************************************************************)
DescCode(name) == IF name = "all" \/ name \in CatalogNames THEN 0 ELSE 1

\* C9, print_description: 0 with documentation for "all" and for every
\* catalog name, else 1 with the "does not exist" message
C9_PrintDescription ==
    op = "print_description" =>
        /\ out.code = DescCode(inp.name)
        /\ out.code = 0 => /\ Len(out.echo) > 0
                           /\ \A i \in 1..Len(out.echo) : out.echo[i][1] = "Transformer "
        /\ inp.name = "all" => Len(out.echo) = Len(TRANSFORMERS)
        /\ out.code = 1 => /\ Len(out.echo) = 1
                           /\ Contains(out.echo[1], "' does not exist.")
                           /\ Contains(out.echo[1], inp.name)

\* cli was entered: click converted every directive
CliEntered == op = "cli" /\ out.called # "convert"

IsPrefix(d, path) == Len(d) <= Len(path) /\ SubSeq(path, 1, Len(d)) = d

\* d is a parent of src, a directory counting as a parent of itself
IsParentOf(d, src) == IsPrefix(d, src) /\ (d # src \/ src \in Dirs)

CommonParents(srcs) == { d \in Dirs : \A s \in srcs : IsParentOf(d, s) }

\* the deepest common parent
Deepest(srcs) == CHOOSE d \in CommonParents(srcs) : \A e \in CommonParents(srcs) : Len(e) <= Len(d)

HasMarker(d) == d \in DOMAIN fs /\ fs[d] # {}

\* C10, the result: the deepest common parent of srcs, or the nearest
\* directory above it, that holds a marker, else the file system root; the
\* configuration comes from robotidy.toml, else pyproject.toml, else is empty
C10_Root ==
    (op \in {"find_project_root", "find_and_read_config"} /\ pc \in {"rooted", "done"}) =>
        /\ inp.srcs = {} => out.root = Root
        /\ inp.srcs # {} =>
               /\ out.root \in CommonParents(inp.srcs)
               /\ IsPrefix(out.root, Deepest(inp.srcs))
               /\ HasMarker(out.root) \/ out.root = Root
               /\ \A d \in Dirs :
                      (IsPrefix(d, Deepest(inp.srcs)) /\ Len(d) > Len(out.root)) =>
                          d \in DOMAIN fs /\ fs[d] = {}
        /\ op = "find_and_read_config" =>
               /\ out.root \in DOMAIN fs
               /\ "robotidy.toml" \in fs[out.root] =>
                      /\ out.source = "robotidy.toml"
                      /\ out.config = read_robotidy_config(out.content)
               /\ ("robotidy.toml" \notin fs[out.root] /\ "pyproject.toml" \in fs[out.root]) =>
                      /\ out.source = "pyproject.toml"
                      /\ out.config = read_pyproject_config(out.content)
               /\ fs[out.root] \cap {"robotidy.toml", "pyproject.toml"} = {} =>
                      /\ out.source = "none"
                      /\ out.config = << >>

\* a turn of the loop returns or moves to the parent directory
C10_WalkStep ==
    pc = "walk" => \/ pc' = "rooted" /\ directory' = directory
                   \/ pc' = "walk" /\ directory # Root /\ directory' = parent(directory)

====
